---- MODULE Spec2Model ----
(***************************************************************************)
(* Model of src/main.py: the odds allocation command (frac_to_decimal,     *)
(* parse_header, parse_lines, equal_payout_stakes, allocate) and the      *)
(* weekly picks (pick, save_pick_to_sheet, load_latest_picks,              *)
(* clear_guild_picks, _do_auto_reveal, revealnow, auto_reveal_task).       *)
(*                                                                         *)
(* The code computes with Python's decimal.Decimal under the default       *)
(* context: 28 significant digits, ROUND_HALF_EVEN, InvalidOperation and   *)
(* DivisionByZero trapped.  TLC's integers are 32 bits wide, so a Decimal  *)
(* coefficient is kept here as its sequence of decimal digits (most        *)
(* significant first) and the arithmetic is done on limbs of four digits.  *)
(***************************************************************************)
EXTENDS Integers, Sequences, FiniteSets, TLC

(***************************************************************************)
(* Natural numbers of any size: sequences of digits, most significant      *)
(* first, without leading zeros; zero is the empty sequence.               *)
(***************************************************************************)
\* F(v): the value v is written once and named by F's parameter
LetIn(v, F(_)) == F(v)

Zeros(k) == [i \in 1..k |-> 0]

RECURSIVE StripLeading(_)
StripLeading(s) ==
    IF s = <<>> THEN <<>>
    ELSE IF s[1] = 0 THEN StripLeading(Tail(s)) ELSE s

RECURSIVE TrailingZeros(_, _)
TrailingZeros(s, k) ==
    IF k = Len(s) THEN k
    ELSE IF s[Len(s) - k] = 0 THEN TrailingZeros(s, k + 1) ELSE k

RECURSIVE NatOfInt(_)
NatOfInt(n) == IF n = 0 THEN <<>> ELSE Append(NatOfInt(n \div 10), n % 10)

RECURSIVE IntOfNat(_)
IntOfNat(s) ==
    IF s = <<>> THEN 0 ELSE 10 * IntOfNat(SubSeq(s, 1, Len(s) - 1)) + s[Len(s)]

\* the digit of s that stands k places left of its last digit (0 beyond its length)
DigitAt(s, k) == IF k < Len(s) THEN s[Len(s) - k] ELSE 0

(***************************************************************************)
(* The arithmetic itself works on limbs, four digits to a limb, so that a  *)
(* product of two limbs stays within TLC's integers.                       *)
(***************************************************************************)
Base == 10 ^ 4

Limbs(d) ==
    LET m == (Len(d) + 3) \div 4
    IN  [j \in 1..m |->
            LET k == 4 * (m - j)
            IN  DigitAt(d, k) + 10 * DigitAt(d, k + 1)
                + 100 * DigitAt(d, k + 2) + 1000 * DigitAt(d, k + 3)] \o <<>>

Digits(L) ==
    StripLeading([i \in 1..(4 * Len(L)) |->
                     (L[(i + 3) \div 4] \div (10 ^ (3 - ((i - 1) % 4)))) % 10] \o <<>>)

RECURSIVE LCmpFrom(_, _, _)
LCmpFrom(A, B, i) ==
    IF i > Len(A) THEN 0
    ELSE IF A[i] < B[i] THEN -1
    ELSE IF A[i] > B[i] THEN 1
    ELSE LCmpFrom(A, B, i + 1)

LCmp(A, B) ==
    IF Len(A) < Len(B) THEN -1
    ELSE IF Len(A) > Len(B) THEN 1
    ELSE LCmpFrom(A, B, 1)

RECURSIVE LAddFrom(_, _, _, _)
LAddFrom(A, B, k, carry) ==
    IF k >= Len(A) /\ k >= Len(B)
    THEN IF carry = 0 THEN <<>> ELSE <<carry>>
    ELSE LET s == DigitAt(A, k) + DigitAt(B, k) + carry
         IN  IF s < Base
             THEN Append(LAddFrom(A, B, k + 1, 0), s)
             ELSE Append(LAddFrom(A, B, k + 1, 1), s - Base)

LAdd(A, B) == LAddFrom(A, B, 0, 0)

RECURSIVE LSubFrom(_, _, _, _)
LSubFrom(A, B, k, borrow) ==
    IF k >= Len(A) THEN <<>>
    ELSE LET d == DigitAt(A, k) - DigitAt(B, k) - borrow
         IN  IF d < 0
             THEN Append(LSubFrom(A, B, k + 1, 1), d + Base)
             ELSE Append(LSubFrom(A, B, k + 1, 0), d)

\* A - B, for A >= B
LSub(A, B) == StripLeading(LSubFrom(A, B, 0, 0))

RECURSIVE LMulSmallFrom(_, _, _, _)
LMulSmallFrom(A, f, k, carry) ==
    IF k >= Len(A)
    THEN IF carry = 0 THEN <<>> ELSE <<carry>>
    ELSE LET s == DigitAt(A, k) * f + carry
         IN  IF s < Base
             THEN Append(LMulSmallFrom(A, f, k + 1, 0), s)
             ELSE Append(LMulSmallFrom(A, f, k + 1, s \div Base), s % Base)

\* A * f, for f < Base
LMulSmall(A, f) == IF f = 0 THEN <<>> ELSE LMulSmallFrom(A, f, 0, 0)

RECURSIVE LMulFrom(_, _, _, _)
LMulFrom(A, B, i, acc) ==
    IF i > Len(B) THEN acc
    ELSE LetIn(LAdd(IF acc = <<>> THEN <<>> ELSE Append(acc, 0), LMulSmall(A, B[i])),
               LAMBDA nx :
                   IF nx = <<>>
                   THEN LMulFrom(A, B, i + 1, <<>>)
                   ELSE LMulFrom(A, B, i + 1, nx))

LMul(A, B) == LMulFrom(A, B, 1, <<>>)

RECURSIVE QuotSearch(_, _, _, _)
\* the largest q in lo..hi with B * q <= r, given B * lo <= r
QuotSearch(B, r, lo, hi) ==
    IF lo >= hi THEN lo
    ELSE LET mid == (lo + hi + 1) \div 2
         IN  IF LCmp(LMulSmall(B, mid), r) <= 0
             THEN QuotSearch(B, r, mid, hi)
             ELSE QuotSearch(B, r, lo, mid - 1)

\* r \div B for r < B * Base: the leading limbs bound the quotient, the search
\* settles it
QuotLimb(B, r) ==
    IF Len(r) < Len(B) THEN 0
    ELSE LetIn(IF Len(r) = Len(B) THEN r[1] ELSE r[1] * Base + r[2],
               LAMBDA top :
                   QuotSearch(B, r, top \div (B[1] + 1),
                              IF top \div B[1] < Base THEN top \div B[1] ELSE Base - 1))

RECURSIVE LDivStep(_, _, _, _, _)
LDivStep(A, B, i, q, r) ==
    IF i > Len(A) THEN [q |-> StripLeading(q), r |-> r]
    ELSE LetIn(IF r = <<>> /\ A[i] = 0 THEN <<>> ELSE Append(r, A[i]),
               LAMBDA r1 :
                   LetIn(QuotLimb(B, r1),
                         LAMBDA k :
                             IF k = 0
                             THEN LDivStep(A, B, i + 1, Append(q, 0), r1)
                             ELSE LDivStep(A, B, i + 1, Append(q, k),
                                           LSub(r1, LMulSmall(B, k)))))

\* -1, 0 or 1 as a < b, a = b, a > b
NatCmp(a, b) ==
    IF Len(a) < Len(b) THEN -1
    ELSE IF Len(a) > Len(b) THEN 1
    ELSE LCmpFrom(Limbs(a), Limbs(b), 1)

NatAdd(a, b) == Digits(LAdd(Limbs(a), Limbs(b)))

\* a - b, for a >= b
NatSub(a, b) == Digits(LSub(Limbs(a), Limbs(b)))

NatMul(a, b) ==
    IF Len(a) >= Len(b) THEN Digits(LMul(Limbs(a), Limbs(b)))
    ELSE Digits(LMul(Limbs(b), Limbs(a)))

\* a * 10^k
NatShift(a, k) == IF a = <<>> THEN <<>> ELSE a \o Zeros(k)

\* quotient and remainder of a by b, for b # 0 (long division)
NatDivMod(a, b) ==
    LetIn(LDivStep(Limbs(a), Limbs(b), 1, <<>>, <<>>),
          LAMBDA qr : [q |-> Digits(qr.q), r |-> Digits(qr.r)])

(***************************************************************************)
(* decimal.Decimal.  A value is [neg, c, e]: sign, coefficient (a natural  *)
(* as above) and exponent, standing for (-1)^neg * c * 10^e.  Values are   *)
(* kept canonical (no trailing zero in c; zero is DecZero), which is how   *)
(* Decimal compares them.  An operation that raises yields [exc |-> name]. *)
(***************************************************************************)

\* decimal.getcontext().prec of the default context the code runs under
Prec == 28

DecZero == [neg |-> FALSE, c |-> <<>>, e |-> 0]

Dec(neg, c, e) ==
    LetIn(StripLeading(c),
          LAMBDA c1 :
              IF c1 = <<>> THEN DecZero
              ELSE LetIn(TrailingZeros(c1, 0),
                         LAMBDA tz : [neg |-> neg, c |-> SubSeq(c1, 1, Len(c1) - tz),
                                      e |-> e + tz]))

DecOfInt(n) == IF n < 0 THEN Dec(TRUE, NatOfInt(-n), 0) ELSE Dec(FALSE, NatOfInt(n), 0)

\* Decimal("0.01")
Cent == Dec(FALSE, <<1>>, -2)

Raise(name) == [exc |-> name]

IsExc(v) == "exc" \in DOMAIN v

\* c without its last k digits, rounded in the given mode; sticky says that
\* non-zero digits follow those of c
RoundOff(c, k, mode, sticky) ==
    LetIn(IF k > Len(c) THEN Zeros(k - Len(c)) \o c ELSE c,
          LAMBDA cp :
              LetIn(StripLeading(SubSeq(cp, 1, Len(cp) - k)),
                    LAMBDA kept :
                        LET n       == Len(cp)
                            rd      == IF k = 0 THEN 0 ELSE cp[n - k + 1]
                            restnz  == sticky \/ \E i \in (n - k + 2)..n : cp[i] # 0
                            lastodd == kept # <<>> /\ kept[Len(kept)] % 2 = 1
                            up      == CASE mode = "ROUND_DOWN"      -> FALSE
                                         [] mode = "ROUND_HALF_UP"   -> rd >= 5
                                         [] mode = "ROUND_HALF_EVEN" ->
                                                rd > 5 \/ (rd = 5 /\ (restnz \/ lastodd))
                        IN  IF up THEN NatAdd(kept, <<1>>) ELSE kept))

\* the context's rounding of an exact result to Prec significant digits
DecRound(neg, c, e, sticky) ==
    IF Len(c) <= Prec THEN Dec(neg, c, e)
    ELSE Dec(neg, RoundOff(c, Len(c) - Prec, "ROUND_HALF_EVEN", sticky),
             e + Len(c) - Prec)

DecNeg(x) == IF x.c = <<>> THEN x ELSE [x EXCEPT !.neg = ~x.neg]

MinOf(a, b) == IF a < b THEN a ELSE b

\* x + y, exactly: [neg, c, e] not yet rounded
DecAddExact(x, y) ==
    LetIn(NatShift(x.c, x.e - MinOf(x.e, y.e)),
          LAMBDA a :
              LetIn(NatShift(y.c, y.e - MinOf(x.e, y.e)),
                    LAMBDA b :
                        IF x.neg = y.neg
                        THEN [neg |-> x.neg, c |-> NatAdd(a, b), e |-> MinOf(x.e, y.e)]
                        ELSE IF NatCmp(a, b) >= 0
                        THEN [neg |-> x.neg, c |-> NatSub(a, b), e |-> MinOf(x.e, y.e)]
                        ELSE [neg |-> y.neg, c |-> NatSub(b, a), e |-> MinOf(x.e, y.e)]))

\* Decimal.__add__
DecAdd(x, y) == LetIn(DecAddExact(x, y), LAMBDA s : DecRound(s.neg, s.c, s.e, FALSE))

\* Decimal.__sub__
DecSub(x, y) == DecAdd(x, DecNeg(y))

\* Decimal.__mul__
DecMul(x, y) ==
    LetIn(NatMul(x.c, y.c), LAMBDA c : DecRound(x.neg # y.neg, c, x.e + y.e, FALSE))

\* -1, 0, 1 as x < y, x = y, x > y
DecCmp(x, y) ==
    LetIn(DecAddExact(x, DecNeg(y)),
          LAMBDA d : IF d.c = <<>> THEN 0 ELSE IF d.neg THEN -1 ELSE 1)

\* Decimal.__truediv__
DecDiv(x, y) ==
    IF y.c = <<>>
    THEN IF x.c = <<>> THEN Raise("InvalidOperation") ELSE Raise("DivisionByZero")
    ELSE IF x.c = <<>> THEN DecZero
    ELSE LET need  == Len(y.c) + Prec + 1 - Len(x.c)
             shift == IF need > 0 THEN need ELSE 0
         IN  LetIn(NatDivMod(NatShift(x.c, shift), y.c),
                   LAMBDA qr : DecRound(x.neg # y.neg, qr.q, x.e - y.e - shift,
                                        qr.r # <<>>))

\* x.quantize(Decimal("0.01"), rounding=mode)
Quantize(x, mode) ==
    LetIn(IF x.e >= -2 THEN NatShift(x.c, x.e + 2)
          ELSE RoundOff(x.c, -2 - x.e, mode, FALSE),
          LAMBDA c : IF Len(c) > Prec THEN Raise("InvalidOperation")
                     ELSE Dec(x.neg, c, -2))

\* int(x.to_integral_value(rounding=ROUND_HALF_UP)), as an integer of the model
ToIntegralHalfUp(x) ==
    LetIn(IF x.e >= 0 THEN NatShift(x.c, x.e)
          ELSE RoundOff(x.c, -x.e, "ROUND_HALF_UP", FALSE),
          LAMBDA c : IF x.neg THEN -IntOfNat(c) ELSE IntOfNat(c))

(***************************************************************************)
(* equal_payout_stakes (src/main.py 359-371).  Entries are numbered from 1 *)
(* here and from 0 in the code.                                            *)
(***************************************************************************)
RECURSIVE DivEach(_, _, _)
\* [num / o for o in dens]
DivEach(num, dens, i) ==
    IF i > Len(dens) THEN <<>>
    ELSE <<DecDiv(num, dens[i])>> \o DivEach(num, dens, i + 1)

RECURSIVE QuantizeEach(_, _, _)
\* [r.quantize(Decimal("0.01"), rounding=mode) for r in xs]
QuantizeEach(xs, mode, i) ==
    IF i > Len(xs) THEN <<>>
    ELSE <<Quantize(xs[i], mode)>> \o QuantizeEach(xs, mode, i + 1)

RECURSIVE SubEach(_, _, _)
\* [xs[i] - ys[i] for i in range(len(xs))]
SubEach(xs, ys, i) ==
    IF i > Len(xs) THEN <<>>
    ELSE <<DecSub(xs[i], ys[i])>> \o SubEach(xs, ys, i + 1)

RECURSIVE SumFrom(_, _, _)
\* sum(xs, start=acc): left to right, every addition rounded by the context
SumFrom(xs, i, acc) ==
    IF i > Len(xs) THEN acc ELSE SumFrom(xs, i + 1, DecAdd(acc, xs[i]))

\* a faulty sum: the start value is 1 instead of 0
DecSumStartOne(xs) == SumFrom(xs, 1, DecOfInt(1))

\* sum(xs, start=Decimal("0"))
DecSum(xs) == SumFrom(xs, 1, DecZero)

\* residuals.sort(key=lambda t: t[1], reverse=True): the entries by residual,
\* largest first; list.sort is stable, also with reverse=True, so entries of
\* equal residual keep their order in the list
SortedResiduals(res) ==
    LET n == Len(res)
        before(j, i) == LET c == DecCmp(res[j], res[i])
                        IN  c > 0 \/ (c = 0 /\ j < i)
        rank(i) == 1 + Cardinality({j \in 1..n : before(j, i)})
    IN  [p \in 1..n |-> CHOOSE i \in 1..n : rank(i) = p] \o <<>>

RECURSIVE Distribute(_, _, _, _)
\* for i in range(cents): idx = residuals[i % len(raw)][0]; rounded[idx] += Decimal("0.01")
Distribute(rounded, residuals, i, cents) ==
    IF i >= cents THEN rounded
    ELSE Distribute([rounded EXCEPT ![residuals[(i % Len(residuals)) + 1]] =
                                        DecAdd(@, Cent)],
                    residuals, i + 1, cents)

\* The call's outcome: [raised |-> the exception's name], or the locals at the
\* return statement with raised = "none" (floored is `rounded` before the loop)
equal_payout_stakes(total_stake, dec_odds_list) ==
    LetIn(DecSum(DivEach(DecOfInt(1), dec_odds_list, 1)), LAMBDA inv_sum :
    LetIn(DecDiv(total_stake, inv_sum), LAMBDA W :
    IF IsExc(W) THEN [raised |-> W.exc]
    ELSE
    LetIn(DivEach(W, dec_odds_list, 1), LAMBDA raw :
    LetIn(QuantizeEach(raw, "ROUND_DOWN", 1), LAMBDA floored :
    IF \E i \in 1..Len(floored) : IsExc(floored[i])
    THEN [raised |-> "InvalidOperation"]
    ELSE
    LetIn(DecSub(total_stake, DecSum(floored)), LAMBDA diff :
    LetIn(SortedResiduals(SubEach(raw, floored, 1)), LAMBDA residuals :
    LetIn(ToIntegralHalfUp(DecMul(diff, DecOfInt(100))), LAMBDA cents :
    LetIn(Distribute(floored, residuals, 0, cents), LAMBDA rounded :
        [raised |-> "none", inv_sum |-> inv_sum, W |-> W, raw |-> raw,
         floored |-> floored, diff |-> diff, residuals |-> residuals,
         cents |-> cents, rounded |-> rounded]))))))))

(***************************************************************************)
(* Text.  A str is a sequence of one-character strings.  The regular       *)
(* expressions of the code are matched by scanning: in each of them a      *)
(* greedy \s* or \d+ is followed by something that cannot start with what  *)
(* it consumed, so the longest match is the only one.                      *)
(***************************************************************************)
DigitChars == <<"0", "1", "2", "3", "4", "5", "6", "7", "8", "9">>

UpperChars == <<"A", "B", "C", "D", "E", "F", "G", "H", "I", "J", "K", "L", "M",
                "N", "O", "P", "Q", "R", "S", "T", "U", "V", "W", "X", "Y", "Z">>

LowerChars == <<"a", "b", "c", "d", "e", "f", "g", "h", "i", "j", "k", "l", "m",
                "n", "o", "p", "q", "r", "s", "t", "u", "v", "w", "x", "y", "z">>

\* \d
IsDigit(ch) == \E d \in 1..10 : DigitChars[d] = ch

DigitVal(ch) == (CHOOSE d \in 1..10 : DigitChars[d] = ch) - 1

\* \s
IsSpace(ch) == ch \in {" ", "\t"}

\* \w
IsWord(ch) ==
    \/ IsDigit(ch)
    \/ ch = "_"
    \/ \E k \in 1..26 : UpperChars[k] = ch \/ LowerChars[k] = ch

\* str.lower of one character (re.IGNORECASE compares case-folded)
Lower(ch) ==
    IF \E k \in 1..26 : UpperChars[k] = ch
    THEN LowerChars[CHOOSE k \in 1..26 : UpperChars[k] = ch]
    ELSE ch

RECURSIVE SpacesEnd(_, _)
\* \s* from position i: the first position at or after i that holds no space
SpacesEnd(s, i) ==
    IF i <= Len(s) /\ IsSpace(s[i]) THEN SpacesEnd(s, i + 1) ELSE i

RECURSIVE DigitsEnd(_, _)
\* \d* from position i
DigitsEnd(s, i) ==
    IF i <= Len(s) /\ IsDigit(s[i]) THEN DigitsEnd(s, i + 1) ELSE i

\* \d+(?:\.\d+)? at position i: the position after the match, 0 for no match
NumberEnd(s, i) ==
    LetIn(DigitsEnd(s, i),
          LAMBDA d1 :
              IF d1 = i THEN 0
              ELSE IF d1 <= Len(s) /\ s[d1] = "."
              THEN LetIn(DigitsEnd(s, d1 + 1),
                         LAMBDA d2 : IF d2 > d1 + 1 THEN d2 ELSE d1)
              ELSE d1)

\* str.strip()
Strip(s) ==
    LetIn({k \in 1..Len(s) : ~IsSpace(s[k])},
          LAMBDA ns :
              IF ns = {} THEN <<>>
              ELSE SubSeq(s, CHOOSE k \in ns : \A j \in ns : k <= j,
                             CHOOSE k \in ns : \A j \in ns : k >= j))

RECURSIVE DigitsOf(_, _)
\* the digits of a number's text, the point left out
DigitsOf(t, i) ==
    IF i > Len(t) THEN <<>>
    ELSE IF t[i] = "." THEN DigitsOf(t, i + 1)
    ELSE <<DigitVal(t[i])>> \o DigitsOf(t, i + 1)

\* Decimal(t) for a text t that matches \d+(?:\.\d+)? : exact, whatever its length
DecOfText(t) ==
    LET dot == {k \in 1..Len(t) : t[k] = "."}
        e   == IF dot = {} THEN 0 ELSE (CHOOSE k \in dot : TRUE) - Len(t)
    IN  Dec(FALSE, DigitsOf(t, 1), e)

RaiseMsg(name, msg) == [exc |-> name, msg |-> msg]

\* a faulty frac_to_decimal: the stake's 1 is not added to the quotient
frac_to_decimal_profit_only(frac_str) ==
    LetIn(SpacesEnd(frac_str, 1), LAMBDA a :           \* \s*
    LetIn(NumberEnd(frac_str, a), LAMBDA b :           \* group 1
    LetIn(SpacesEnd(frac_str, b), LAMBDA c :           \* \s* and then /
    LetIn(SpacesEnd(frac_str, c + 1), LAMBDA d :       \* \s*
    LetIn(NumberEnd(frac_str, d), LAMBDA e :           \* group 2, then \s* to the end
    IF ~(/\ b > 0
         /\ c <= Len(frac_str) /\ frac_str[c] = "/"
         /\ e > 0
         /\ SpacesEnd(frac_str, e) = Len(frac_str) + 1)
    THEN RaiseMsg("ValueError", <<"Bad fractional odds: ", frac_str>>)
    ELSE
    LetIn(DecOfText(SubSeq(frac_str, a, b - 1)), LAMBDA num :
    LetIn(DecOfText(SubSeq(frac_str, d, e - 1)), LAMBDA den :
    IF den = DecZero
    THEN RaiseMsg("ValueError", <<"Denominator cannot be zero">>)
    ELSE DecDiv(num, den))))))))

\* src/main.py 327-335
frac_to_decimal(frac_str) ==
    LetIn(SpacesEnd(frac_str, 1), LAMBDA a :           \* \s*
    LetIn(NumberEnd(frac_str, a), LAMBDA b :           \* group 1
    LetIn(SpacesEnd(frac_str, b), LAMBDA c :           \* \s* and then /
    LetIn(SpacesEnd(frac_str, c + 1), LAMBDA d :       \* \s*
    LetIn(NumberEnd(frac_str, d), LAMBDA e :           \* group 2, then \s* to the end
    IF ~(/\ b > 0
         /\ c <= Len(frac_str) /\ frac_str[c] = "/"
         /\ e > 0
         /\ SpacesEnd(frac_str, e) = Len(frac_str) + 1)
    THEN RaiseMsg("ValueError", <<"Bad fractional odds: ", frac_str>>)
    ELSE
    LetIn(DecOfText(SubSeq(frac_str, a, b - 1)), LAMBDA num :
    LetIn(DecOfText(SubSeq(frac_str, d, e - 1)), LAMBDA den :
    IF den = DecZero
    THEN RaiseMsg("ValueError", <<"Denominator cannot be zero">>)
    ELSE DecAdd(DecDiv(num, den), DecOfInt(1)))))))))

CommandToken == <<"!", "a", "l", "l", "o", "c", "a", "t", "e">>

\* the literal !allocate at position p of s, whatever the case of its letters
TokenAt(s, p) ==
    /\ p + Len(CommandToken) - 1 <= Len(s)
    /\ \A k \in 1..Len(CommandToken) : Lower(s[p + k - 1]) = CommandToken[k]

\* a faulty pattern: the command's name may be left out, (?:!allocate\s+)?
HeaderMatchAtOptionalToken(s, p) ==
    LetIn(IF TokenAt(s, p) /\ SpacesEnd(s, p + Len(CommandToken)) > p + Len(CommandToken)
          THEN SpacesEnd(s, p + Len(CommandToken)) ELSE p, LAMBDA a :
    LetIn(NumberEnd(s, a), LAMBDA b :                                  \* group 1
    LetIn(SpacesEnd(s, b), LAMBDA c :                                  \* \s* and then u
    LetIn(SpacesEnd(s, c + 1), LAMBDA d :                              \* \b\s+
    LetIn(SpacesEnd(s, IF d <= Len(s) /\ s[d] = "$" THEN d + 1 ELSE d), \* \$?\s*
          LAMBDA g :
    LetIn(NumberEnd(s, g), LAMBDA h :                                  \* group 2
    IF /\ TRUE
       /\ b > 0
       /\ c <= Len(s) /\ Lower(s[c]) = "u"
       /\ (c = Len(s) \/ ~IsWord(s[c + 1]))
       /\ d > c + 1
       /\ h > 0
    THEN [ok |-> TRUE, g1 |-> SubSeq(s, a, b - 1), g2 |-> SubSeq(s, g, h - 1)]
    ELSE [ok |-> FALSE]))))))

\* the pattern of parse_header matched at position p of the line:
\* [ok |-> FALSE], or its two groups
HeaderMatchAt(s, p) ==
    LetIn(SpacesEnd(s, p + Len(CommandToken)), LAMBDA a :
    LetIn(NumberEnd(s, a), LAMBDA b :                                  \* group 1
    LetIn(SpacesEnd(s, b), LAMBDA c :                                  \* \s* and then u
    LetIn(SpacesEnd(s, c + 1), LAMBDA d :                              \* \b\s+
    LetIn(SpacesEnd(s, IF d <= Len(s) /\ s[d] = "$" THEN d + 1 ELSE d), \* \$?\s*
          LAMBDA g :
    LetIn(NumberEnd(s, g), LAMBDA h :                                  \* group 2
    IF /\ TokenAt(s, p) /\ a > p + Len(CommandToken)                   \* !allocate\s+
       /\ b > 0
       /\ c <= Len(s) /\ Lower(s[c]) = "u"
       /\ (c = Len(s) \/ ~IsWord(s[c + 1]))
       /\ d > c + 1
       /\ h > 0
    THEN [ok |-> TRUE, g1 |-> SubSeq(s, a, b - 1), g2 |-> SubSeq(s, g, h - 1)]
    ELSE [ok |-> FALSE]))))))

\* src/main.py 337-343; re.search takes the leftmost position that matches
parse_header(line) ==
    LetIn({p \in 1..Len(line) : HeaderMatchAt(line, p).ok},
          LAMBDA at :
              IF at = {}
              THEN RaiseMsg("ValueError", <<"Header must look like: !allocate 1u $10">>)
              ELSE LetIn(HeaderMatchAt(line, CHOOSE p \in at : \A q \in at : p <= q),
                         LAMBDA m : [units |-> DecOfText(m.g1),
                                     unit_value |-> DecOfText(m.g2)]))

\* the pattern \d+(?:\.\d+)?/\d+(?:\.\d+)? over the whole of tok
IsFracToken(tok) ==
    LetIn(NumberEnd(tok, 1),
          LAMBDA b : /\ b > 0
                     /\ b <= Len(tok) /\ tok[b] = "/"
                     /\ NumberEnd(tok, b + 1) = Len(tok) + 1)

\* One round of the loop of parse_lines on a non-blank line.  The pattern
\* (.*\S)\s+(FRAC)\s*$ is searched in t = ln.strip(): FRAC holds no space and
\* reaches the end of t, so it is what follows the last space of t, and
\* group 1 is what precedes the spaces before it.
ParseLine(ln) ==
    LetIn(Strip(ln), LAMBDA t :
    LetIn({k \in 1..Len(t) : IsSpace(t[k])}, LAMBDA sp :
    IF sp = {} THEN RaiseMsg("ValueError", <<"Could not parse line: ", ln>>)
    ELSE
    LetIn(CHOOSE k \in sp : \A q \in sp : k >= q, LAMBDA j :
    LetIn(SubSeq(t, j + 1, Len(t)), LAMBDA frac :
    IF ~IsFracToken(frac)
    THEN RaiseMsg("ValueError", <<"Could not parse line: ", ln>>)
    ELSE
    LetIn(frac_to_decimal(frac), LAMBDA dec :
    IF IsExc(dec) THEN dec
    ELSE [name |-> Strip(SubSeq(t, 1, j - 1)), frac |-> frac, dec_odds |-> dec])))))

RECURSIVE ParseFromSkipping(_, _, _)
\* a faulty loop: a line that does not parse is passed over like a blank one
ParseFromSkipping(lines, i, picks) ==
    IF i > Len(lines) THEN [picks |-> picks]
    ELSE IF Strip(lines[i]) = <<>> THEN ParseFromSkipping(lines, i + 1, picks)
    ELSE LetIn(ParseLine(lines[i]),
               LAMBDA p : IF IsExc(p) THEN ParseFromSkipping(lines, i + 1, picks)
                          ELSE ParseFromSkipping(lines, i + 1, Append(picks, p)))

RECURSIVE ParseFrom(_, _, _)
\* the loop of parse_lines from line i on, picks holding the entries so far
ParseFrom(lines, i, picks) ==
    IF i > Len(lines) THEN [picks |-> picks]
    ELSE IF Strip(lines[i]) = <<>> THEN ParseFrom(lines, i + 1, picks)
    ELSE LetIn(ParseLine(lines[i]),
               LAMBDA p : IF IsExc(p) THEN p
                          ELSE ParseFrom(lines, i + 1, Append(picks, p)))

\* src/main.py 345-357: [picks |-> the list], or the exception raised
parse_lines(lines) == ParseFrom(lines, 1, <<>>)

(***************************************************************************)
(* allocate (src/main.py 373-388).  content is the message's text as       *)
(* content.splitlines() gives it: a sequence of lines.                     *)
(***************************************************************************)
QuantizeOrExc(x, mode) == IF IsExc(x) THEN x ELSE Quantize(x, mode)

RECURSIVE UnitsEach(_, _, _)
\* [(s / unit_value).quantize(Decimal("0.01"), rounding=ROUND_HALF_UP) for s in stakes]
UnitsEach(stakes, unit_value, i) ==
    IF i > Len(stakes) THEN <<>>
    ELSE <<QuantizeOrExc(DecDiv(stakes[i], unit_value), "ROUND_HALF_UP")>>
         \o UnitsEach(stakes, unit_value, i + 1)

\* the first exception among xs, the quantized W after them
FirstExc(xs, shown) ==
    LetIn({i \in 1..Len(xs) : IsExc(xs[i])},
          LAMBDA bad : IF bad # {} THEN xs[CHOOSE i \in bad : \A j \in bad : i <= j]
                       ELSE shown)

\* the rows of the table: for (name, frac, _), s, u in zip(picks, stakes, units_each)
Rows(picks, stakes, units_each) ==
    [i \in 1..Len(picks) |->
        [name |-> picks[i].name, frac |-> picks[i].frac,
         units |-> units_each[i], dollars |-> stakes[i]]] \o <<>>

\* the except branch: await ctx.reply(f"Error: {e}")
ErrorReply(e, called) ==
    [replies |-> <<[kind |-> "error", error |-> e]>>, called |-> called]

\* [replies |-> what ctx.reply was given, in order,
\*  called  |-> the functions of the module the handler entered]
allocate(content) ==
    IF content = <<>> THEN ErrorReply(Raise("IndexError"), {})
    ELSE
    LetIn(parse_header(content[1]), LAMBDA header :
    IF IsExc(header) THEN ErrorReply(header, {"parse_header"})
    ELSE
    LetIn(parse_lines(Tail(content)), LAMBDA parsed :
    IF IsExc(parsed) THEN ErrorReply(parsed, {"parse_header", "parse_lines"})
    ELSE
    LetIn(Quantize(DecMul(header.units, header.unit_value), "ROUND_HALF_EVEN"),
          LAMBDA total_stake :
    IF IsExc(total_stake)
    THEN ErrorReply(total_stake, {"parse_header", "parse_lines"})
    ELSE
    LetIn(equal_payout_stakes(total_stake,
                              [i \in 1..Len(parsed.picks) |->
                                   parsed.picks[i].dec_odds] \o <<>>),
          LAMBDA r :
    IF r.raised # "none"
    THEN ErrorReply(Raise(r.raised),
                    {"parse_header", "parse_lines", "equal_payout_stakes"})
    ELSE
    LetIn(UnitsEach(r.rounded, header.unit_value, 1), LAMBDA units_each :
    LetIn(FirstExc(units_each, Quantize(r.W, "ROUND_HALF_EVEN")), LAMBDA shown :
    IF IsExc(shown)
    THEN ErrorReply(shown, {"parse_header", "parse_lines", "equal_payout_stakes"})
    ELSE [replies |-> <<[kind |-> "table", payout |-> shown,
                         rows |-> Rows(parsed.picks, r.rounded, units_each)]>>,
          called  |-> {"parse_header", "parse_lines", "equal_payout_stakes"}]))))))

(***************************************************************************)
(* The calls that are checked.  A behaviour is one call: the initial state *)
(* holds the function and its argument, the step runs it to its end.       *)
(***************************************************************************)
VARIABLES
    pc,        \* "call" before the function ran, "done" after
    fn,        \* the function called
    arg,       \* its argument(s)
    ret,       \* what it returned or raised ("none" before)
    replies,   \* what the handler sent with ctx.reply, in order
    called     \* the functions the handler entered

(***************************************************************************)
(* The running bot: the "Picks" worksheet, the clock, the scheduler's      *)
(* latch and the coroutines that are suspended at an await.                *)
(***************************************************************************)
VARIABLES
    sheet,             \* ws.get_all_values(): the worksheet's rows, the header first
    now,               \* the clock, in units of 10 seconds (UTC)
    last_reveal_date,  \* _last_reveal_date: None or the date of the last attempt
    task,              \* auto_reveal_task: asleep or awaiting, and its local now
    rv,                \* the _do_auto_reveal coroutine of each caller
    cooldown,          \* per user, when the pick cooldown window was opened
    posted,            \* the messages sent to the reveal channel, in order
    reveals,           \* the invocations of _do_auto_reveal: the times of the
                       \* scheduler's, the authors of revealnow's
    channel_guild      \* the reveal channel's guild id, None for a channel without one

botVars ==
    <<sheet, now, last_reveal_date, task, rv, cooldown, posted, reveals, channel_guild>>

vars == <<pc, fn, arg, ret, replies, called, botVars>>

None == [none |-> TRUE]

\* a single call is checked: the bot is not running
BotOff ==
    /\ sheet = <<>>
    /\ now = 0
    /\ last_reveal_date = None
    /\ task = None
    /\ rv = None
    /\ cooldown = None
    /\ posted = <<>>
    /\ reveals = <<>>
    /\ channel_guild = None

\* the longest odds list and the longest message body (lines after the header)
MaxEntries == 3

Money(c) == Dec(FALSE, c, -2)

\* 99999999999999999999999999.99, the largest 2-decimal amount of Prec digits
LargestMoney == Money([i \in 1..Prec |-> 9])

TotalStakes ==
    {DecZero, Money(<<8>>), Money(<<3, 0, 0>>), Money(<<2, 0, 0, 0>>), LargestMoney}

\* decimal odds 2, 4, 6 and 1.333333333333333333333333333 (1/1, 3/1, 5/1, 1/3)
OddsPool ==
    {DecOfInt(2), DecOfInt(4), DecOfInt(6),
     Dec(FALSE, <<1>> \o [i \in 1..(Prec - 1) |-> 3], 1 - Prec)}

SeqsUpTo(S, n) == UNION {[1..k -> S] : k \in 0..n}

\* first lines of a message that invokes the command: the text begins with
\* the prefix and the command's name
HeaderTwoTens == <<"!", "a", "l", "l", "o", "c", "a", "t", "e", " ", "2", "u", " ", "$", "1", "0">>

HeaderThreeOnes == <<"!", "a", "l", "l", "o", "c", "a", "t", "e", " ", "3", "u", " ", "$", "1">>

HeaderZeroValue == <<"!", "a", "l", "l", "o", "c", "a", "t", "e", " ", "2", "u", " ", "$", "0">>

HeaderLargest ==
    <<"!", "a", "l", "l", "o", "c", "a", "t", "e", " ", "1", "u", " ", "$">>
    \o [i \in 1..(Prec - 2) |-> "9"] \o <<".", "9", "9">>

\* no space between the u and the amount
HeaderNoSpace == <<"!", "a", "l", "l", "o", "c", "a", "t", "e", " ", "2", "u", "$", "1", "0">>

MalformedHeaderLines == {HeaderNoSpace}

HeaderLines ==
    {HeaderTwoTens, HeaderThreeOnes, HeaderZeroValue, HeaderLargest}
        \cup MalformedHeaderLines

EntryAlice == <<"A", "l", "i", "c", "e", " ", "1", "/", "1">>

EntryBob == <<"B", "o", "b", " ", "3", "/", "1">>

\* a name without odds
EntryNoOdds == <<"J", "u", "s", "t", "A", "N", "a", "m", "e">>

\* odds with a zero denominator
EntryZeroDen == <<"Z", "e", "d", " ", "1", "/", "0">>

BlankLine == <<" ", " ">>

MalformedEntryLines == {EntryNoOdds, EntryZeroDen}

EntryLines == {EntryAlice, EntryBob, BlankLine} \cup MalformedEntryLines

InitStakes ==
    /\ fn = "equal_payout_stakes"
    /\ arg \in [total_stake : TotalStakes, dec_odds_list : SeqsUpTo(OddsPool, MaxEntries)]

InitAllocate ==
    /\ fn = "allocate"
    /\ \E h \in HeaderLines, body \in SeqsUpTo(EntryLines, MaxEntries) :
           arg = [content |-> <<h>> \o body]

Init ==
    /\ pc = "call"
    /\ ret = "none"
    /\ replies = <<>>
    /\ called = {}
    /\ BotOff
    /\ (InitStakes \/ InitAllocate)

CallEqualPayoutStakes ==
    /\ pc = "call" /\ fn = "equal_payout_stakes"
    /\ ret' = equal_payout_stakes(arg.total_stake, arg.dec_odds_list)
    /\ pc' = "done"
    /\ UNCHANGED <<fn, arg, replies, called, botVars>>

Allocate ==
    /\ pc = "call" /\ fn = "allocate"
    /\ LET out == allocate(arg.content)
       IN  /\ replies' = replies \o out.replies
           /\ called' = out.called
    /\ pc' = "done"
    /\ UNCHANGED <<fn, arg, ret, botVars>>

Next == CallEqualPayoutStakes \/ Allocate

Spec == Init /\ [][Next]_vars

(***************************************************************************)
(* Exact arithmetic on Decimal values, for stating the properties: no      *)
(* rounding to Prec digits takes place here.                               *)
(***************************************************************************)
ExactAdd(x, y) == LET s == DecAddExact(x, y) IN Dec(s.neg, s.c, s.e)

ExactSub(x, y) == ExactAdd(x, DecNeg(y))

ExactMul(x, y) == Dec(x.neg # y.neg, NatMul(x.c, y.c), x.e + y.e)

ExactAbs(x) == [x EXCEPT !.neg = FALSE]

RECURSIVE ExactSumFrom(_, _)
ExactSumFrom(xs, i) ==
    IF i > Len(xs) THEN DecZero ELSE ExactAdd(xs[i], ExactSumFrom(xs, i + 1))

ExactSum(xs) == ExactSumFrom(xs, 1)

\* x is a whole number of cents
IsCents(x) == x.e >= -2

(***************************************************************************)
(* equal_payout_stakes: the calls the properties are about.                *)
(***************************************************************************)
StakesCall == pc = "done" /\ fn = "equal_payout_stakes"

\* the call is within the contract's domain: a non-empty list of odds, each
\* at least 1, and a total of whole cents that is not negative
StakesInDomain ==
    /\ arg.dec_odds_list # <<>>
    /\ \A i \in 1..Len(arg.dec_odds_list) :
           DecCmp(arg.dec_odds_list[i], DecOfInt(1)) >= 0
    /\ ~arg.total_stake.neg
    /\ IsCents(arg.total_stake)

\* the call returned (W, rounded)
StakesReturned == StakesCall /\ StakesInDomain /\ ret.raised = "none"

\* C1 - Conservation: for every non-empty list of odds, each at least 1, and
\* every total of whole cents that is not negative, the stakes returned by
\* equal_payout_stakes sum to the total exactly; with one entry the one
\* stake is the total.
C1_Conservation ==
    StakesReturned =>
        /\ ExactSum(ret.rounded) = arg.total_stake
        /\ (Len(ret.rounded) = 1 => ret.rounded[1] = arg.total_stake)

\* C2 - Equal payout of the theoretical stakes: with W = total / sum(1/odds)
\* and raw_i = W / odds_i as the function computes them, raw_i * odds_i = W
\* for every entry and the raw stakes sum to the total, in exact arithmetic.
C2_EqualPayoutExact ==
    StakesReturned =>
        /\ \A i \in 1..Len(ret.raw) :
               ExactMul(ret.raw[i], arg.dec_odds_list[i]) = ret.W
        /\ ExactSum(ret.raw) = arg.total_stake

\* C3 - Per-entry accuracy: every returned stake differs from its
\* theoretical stake raw_i by at most one cent, and stake_i * odds_i differs
\* from W by at most odds_i * 0.01.
C3_PerEntryAccuracy ==
    StakesReturned =>
        \A i \in 1..Len(ret.rounded) :
            /\ DecCmp(ExactAbs(ExactSub(ret.rounded[i], ret.raw[i])), Cent) <= 0
            /\ DecCmp(ExactAbs(ExactSub(ExactMul(ret.rounded[i], arg.dec_odds_list[i]),
                                        ret.W)),
                      ExactMul(arg.dec_odds_list[i], Cent)) <= 0

\* C4 - Deficit bound: the number of cents owed is at least 0 and less than
\* the number of entries, so the loop never comes back to an entry and no
\* entry receives more than one cent.
C4_DeficitBound ==
    StakesReturned =>
        /\ 0 <= ret.cents
        /\ ret.cents < Len(arg.dec_odds_list)
        /\ \A i \in 1..Len(ret.rounded) :
               DecCmp(ExactSub(ret.rounded[i], ret.floored[i]), Cent) <= 0

\* the entries by remainder raw_i - floored_i, largest first, entries of equal
\* remainder in input order: stated as the one permutation that is so ordered
RemainderOrder(raw, floored) ==
    LET n      == Len(raw)
        rem(i) == ExactSub(raw[i], floored[i])
    IN  CHOOSE p \in [1..n -> 1..n] :
            /\ \A k, l \in 1..n : k # l => p[k] # p[l]
            /\ \A k, l \in 1..n :
                   k < l => \/ DecCmp(rem(p[k]), rem(p[l])) > 0
                            \/ DecCmp(rem(p[k]), rem(p[l])) = 0 /\ p[k] < p[l]

\* C5 - Largest-remainder selection: the entries whose floored stake grows by
\* one cent are exactly the first `cents` entries by remainder, largest
\* first, ties in input order; every other entry keeps its floored stake.
\* Total 20.00 with odds 2 and 4 gives 13.33 and 6.67.
C5_LargestRemainder ==
    StakesReturned =>
        /\ LET order == RemainderOrder(ret.raw, ret.floored)
           IN  \A k \in 1..Len(order) :
                   ret.rounded[order[k]] =
                       IF k <= ret.cents
                       THEN ExactAdd(ret.floored[order[k]], Cent)
                       ELSE ret.floored[order[k]]
        /\ (/\ arg.total_stake = Money(<<2, 0, 0, 0>>)
            /\ arg.dec_odds_list = <<DecOfInt(2), DecOfInt(4)>>)
           => ret.rounded = <<Money(<<1, 3, 3, 3>>), Money(<<6, 6, 7>>)>>

\* C6 - Idempotence of rounding: when every theoretical stake raw_i is a
\* whole number of cents, the stakes returned are the raw stakes, the
\* deficit is 0 and no cent is added.
C6_Idempotence ==
    (StakesReturned /\ \A i \in 1..Len(ret.raw) : IsCents(ret.raw[i])) =>
        /\ ret.rounded = ret.raw
        /\ ret.cents = 0

(***************************************************************************)
(* allocate: the calls the properties are about.  Which lines of the       *)
(* message are malformed or blank is read off the sets the lines are       *)
(* drawn from, not off the parser.                                         *)
(***************************************************************************)
AllocateCall == pc = "done" /\ fn = "allocate"

EntryLinesOf(content) == {i \in 2..Len(content) : content[i] # BlankLine}

Malformed(content) ==
    \/ content[1] \in MalformedHeaderLines
    \/ \E i \in 2..Len(content) : content[i] \in MalformedEntryLines

\* C7 - All-or-nothing output: allocate sends exactly one reply, the whole
\* table with one row per entry line or one error; when the header, an entry
\* line or a fraction is malformed, equal_payout_stakes is never entered and
\* the reply is the error, without any row.
C7_AllOrNothing ==
    AllocateCall =>
        /\ Len(replies) = 1
        /\ \/ /\ replies[1].kind = "table"
              /\ Len(replies[1].rows) = Cardinality(EntryLinesOf(arg.content))
              /\ "equal_payout_stakes" \in called
           \/ /\ replies[1].kind = "error"
              /\ DOMAIN replies[1] = {"kind", "error"}
        /\ Malformed(arg.content) =>
               /\ replies[1].kind = "error"
               /\ "equal_payout_stakes" \notin called

\* a malformed entry line after a good one: the reply is the error alone
C7_Witness ==
    /\ AllocateCall
    /\ arg.content = <<HeaderTwoTens, EntryAlice, EntryZeroDen>>
    /\ Len(replies) = 1
    /\ replies[1].kind = "error"
    /\ called = {"parse_header", "parse_lines"}

\* C8 - Empty request is an error: equal_payout_stakes with an empty odds
\* list raises for every total, the total 0 included, and returns nothing;
\* allocate with a good header and no entry line replies with an error, not
\* with an empty table.
C8_EmptyRequestIsError ==
    /\ (StakesCall /\ arg.dec_odds_list = <<>>) =>
           /\ ret.raised \in {"DivisionByZero", "InvalidOperation"}
           /\ DOMAIN ret = {"raised"}
    /\ (/\ AllocateCall
        /\ arg.content[1] \notin MalformedHeaderLines
        /\ EntryLinesOf(arg.content) = {}) =>
           /\ Len(replies) = 1
           /\ replies[1].kind = "error"
           /\ replies[1].error.exc \in {"DivisionByZero", "InvalidOperation"}

\* the empty list with the total 0: 0 / 0 raises as well
C8_Witness ==
    /\ StakesCall
    /\ arg.dec_odds_list = <<>>
    /\ arg.total_stake = DecZero
    /\ ret.raised = "InvalidOperation"

(***************************************************************************)
(* The parsers called on their own.  The texts are put together from       *)
(* parts; what each part is worth (whether it is well-formed, the number   *)
(* it writes) is written next to it, so that what a parser must answer is  *)
(* known from the way the text was built, not from the parser.             *)
(***************************************************************************)
\* 0.0000000000000000000000000001, one unit in the 28th decimal place
TinyText == <<"0", ".">> \o [i \in 1..(Prec - 1) |-> "0"] \o <<"1">>

\* numerators: short is TRUE for the numbers of a few digits
Numerators ==
    {[text |-> <<"0">>, ok |-> TRUE, val |-> DecZero, short |-> TRUE],
     [text |-> <<"1">>, ok |-> TRUE, val |-> Dec(FALSE, <<1>>, 0), short |-> TRUE],
     [text |-> <<"5">>, ok |-> TRUE, val |-> Dec(FALSE, <<5>>, 0), short |-> TRUE],
     [text |-> <<"2", ".", "5">>, ok |-> TRUE, val |-> Dec(FALSE, <<2, 5>>, -1), short |-> TRUE],
     [text |-> <<"1", "0">>, ok |-> TRUE, val |-> Dec(FALSE, <<1>>, 1), short |-> TRUE],
     [text |-> TinyText, ok |-> TRUE, val |-> Dec(FALSE, <<1>>, -Prec), short |-> FALSE],
     [text |-> <<"1", ".">>, ok |-> FALSE, val |-> DecZero, short |-> TRUE],
     [text |-> <<"x">>, ok |-> FALSE, val |-> DecZero, short |-> TRUE],
     [text |-> <<"-", "1">>, ok |-> FALSE, val |-> DecZero, short |-> TRUE]}

\* denominators: finite is TRUE where 1/den is a decimal of a few digits
Denominators ==
    {[text |-> <<"1">>, ok |-> TRUE, val |-> Dec(FALSE, <<1>>, 0), finite |-> TRUE],
     [text |-> <<"3">>, ok |-> TRUE, val |-> Dec(FALSE, <<3>>, 0), finite |-> FALSE],
     [text |-> <<"4">>, ok |-> TRUE, val |-> Dec(FALSE, <<4>>, 0), finite |-> TRUE],
     [text |-> <<"7">>, ok |-> TRUE, val |-> Dec(FALSE, <<7>>, 0), finite |-> FALSE],
     [text |-> <<"0", ".", "5">>, ok |-> TRUE, val |-> Dec(FALSE, <<5>>, -1), finite |-> TRUE],
     [text |-> <<"0">>, ok |-> TRUE, val |-> DecZero, finite |-> FALSE],
     [text |-> <<"0", ".", "0">>, ok |-> TRUE, val |-> DecZero, finite |-> FALSE],
     [text |-> <<"0", ".", "0", "0">>, ok |-> TRUE, val |-> DecZero, finite |-> FALSE],
     [text |-> <<".", "5">>, ok |-> FALSE, val |-> DecZero, finite |-> FALSE]}

Separators ==
    {[text |-> <<"/">>, ok |-> TRUE], [text |-> <<" ", "/", "\t">>, ok |-> TRUE],
     [text |-> <<"-">>, ok |-> FALSE], [text |-> <<"/", "/">>, ok |-> FALSE]}

Leaders == {<<>>, <<" ">>}

Trailers ==
    {[text |-> <<>>, ok |-> TRUE], [text |-> <<" ">>, ok |-> TRUE],
     [text |-> <<"x">>, ok |-> FALSE]}

\* the texts given to frac_to_decimal, each with what it is built from
FracCases ==
    {[frac_str |-> l \o n.text \o sp.text \o d.text \o tr.text,
      ok       |-> n.ok /\ sp.ok /\ d.ok /\ tr.ok,
      num      |-> n.val,
      den      |-> d.val,
      exact    |-> n.short /\ d.finite] :
        l \in Leaders, n \in Numerators, sp \in Separators, d \in Denominators,
        tr \in Trailers}

FracCase(frac_str) == CHOOSE c \in FracCases : c.frac_str = frac_str

\* what may precede the count.  token: the command's name and white space
\* after it are there; claimed: the part is a leading command token, or
\* nothing, as the header grammar of the specification has it
Prefixes ==
    {[text |-> <<>>, token |-> FALSE, claimed |-> TRUE],
     [text |-> <<"!", "a", "l", "l", "o", "c", "a", "t", "e", " ">>, token |-> TRUE, claimed |-> TRUE],
     [text |-> <<"!", "A", "L", "L", "O", "C", "A", "T", "E", " ", "\t">>, token |-> TRUE, claimed |-> TRUE],
     [text |-> <<"h", "e", "y", " ", "!", "A", "l", "l", "o", "c", "a", "t", "e", " ">>, token |-> TRUE, claimed |-> FALSE],
     [text |-> <<"!", "a", "l", "l", "o", "c", "a", "t", "e">>, token |-> FALSE, claimed |-> FALSE],
     [text |-> <<"a", "l", "l", "o", "c", "a", "t", "e", " ">>, token |-> FALSE, claimed |-> FALSE]}

Counts ==
    {[text |-> <<"2">>, ok |-> TRUE, val |-> Dec(FALSE, <<2>>, 0)],
     [text |-> <<"0", ".", "5">>, ok |-> TRUE, val |-> Dec(FALSE, <<5>>, -1)],
     [text |-> <<"1", "0">>, ok |-> TRUE, val |-> Dec(FALSE, <<1>>, 1)],
     [text |-> <<>>, ok |-> FALSE, val |-> DecZero],
     [text |-> <<"x">>, ok |-> FALSE, val |-> DecZero]}

\* what stands between the count and the amount.  ok: a u that ends a word,
\* white space, an optional $; claimed: "yes" for the u and the optional
\* currency symbol as the specification writes them ("2u $10"), "no" where
\* the u is missing, "unsaid" where the specification does not tell
Middles ==
    {[text |-> <<"u", " ", "$">>, ok |-> TRUE, claimed |-> "yes"],
     [text |-> <<"u", " ">>, ok |-> TRUE, claimed |-> "yes"],
     [text |-> <<" ", "u", " ", " ", "$", " ">>, ok |-> TRUE, claimed |-> "unsaid"],
     [text |-> <<"U", " ", "$">>, ok |-> TRUE, claimed |-> "unsaid"],
     [text |-> <<"u", "$">>, ok |-> FALSE, claimed |-> "unsaid"],
     [text |-> <<"u", "s", " ", "$">>, ok |-> FALSE, claimed |-> "no"],
     [text |-> <<" ", "$">>, ok |-> FALSE, claimed |-> "no"]}

Amounts ==
    {[text |-> <<"1", "0">>, ok |-> TRUE, val |-> Dec(FALSE, <<1>>, 1)],
     [text |-> <<"0">>, ok |-> TRUE, val |-> DecZero],
     [text |-> <<"1", "2", ".", "5", "0">>, ok |-> TRUE, val |-> Dec(FALSE, <<1, 2, 5>>, -1)],
     [text |-> <<>>, ok |-> FALSE, val |-> DecZero],
     [text |-> <<"x">>, ok |-> FALSE, val |-> DecZero]}

Endings == {<<>>, <<" ", "p", "l", "e", "a", "s", "e">>}

\* the lines given to parse_header, each with what it is built from
HeaderCases ==
    {[line     |-> pre.text \o n.text \o mid.text \o amt.text \o e,
      accepted |-> pre.token /\ n.ok /\ mid.ok /\ amt.ok,
      claimed  |-> pre.claimed /\ n.ok /\ mid.claimed = "yes" /\ amt.ok,
      absent   |-> ~n.ok \/ mid.claimed = "no" \/ ~amt.ok,
      token    |-> pre.token,
      count    |-> n.val,
      amount   |-> amt.val] :
        pre \in Prefixes, n \in Counts, mid \in Middles, amt \in Amounts,
        e \in Endings}

HeaderCase(line) == CHOOSE h \in HeaderCases : h.line = line

InitFrac ==
    /\ fn = "frac_to_decimal"
    /\ \E c \in FracCases : arg = [frac_str |-> c.frac_str]

InitHeader ==
    /\ fn = "parse_header"
    /\ \E h \in HeaderCases : arg = [line |-> h.line]

InitParse ==
    /\ pc = "call"
    /\ ret = "none"
    /\ replies = <<>>
    /\ called = {}
    /\ BotOff
    /\ (InitFrac \/ InitHeader)

CallFracToDecimal ==
    /\ pc = "call" /\ fn = "frac_to_decimal"
    /\ ret' = frac_to_decimal(arg.frac_str)
    /\ pc' = "done"
    /\ UNCHANGED <<fn, arg, replies, called, botVars>>

CallParseHeader ==
    /\ pc = "call" /\ fn = "parse_header"
    /\ ret' = parse_header(arg.line)
    /\ pc' = "done"
    /\ UNCHANGED <<fn, arg, replies, called, botVars>>

NextParse == CallFracToDecimal \/ CallParseHeader

SpecParse == InitParse /\ [][NextParse]_vars

(***************************************************************************)
(* parse_header and frac_to_decimal: the properties.                       *)
(***************************************************************************)
HeaderCall == pc = "done" /\ fn = "parse_header"

HeaderFormatError ==
    RaiseMsg("ValueError", <<"Header must look like: !allocate 1u $10">>)

\* the header of the specification's example, without the command's name
HeaderWithoutToken == <<"2", "u", " ", "$", "1", "0">>

FracCall == pc = "done" /\ fn = "frac_to_decimal"

\* r = 1 + num / den, exactly:  r * den = den + num
IsOnePlusQuotient(r, num, den) == ExactMul(r, den) = ExactAdd(den, num)

\* | r - (1 + num / den) | <= 10^(1 - Prec) * (1 + num / den), stated without a
\* division:  | r * den - (den + num) | * 10^(Prec - 1) <= den + num
IsNearOnePlusQuotient(r, num, den) ==
    LET gap == ExactAbs(ExactSub(ExactMul(r, den), ExactAdd(den, num)))
    IN  DecCmp(Dec(FALSE, gap.c, gap.e + Prec - 1), ExactAdd(den, num)) <= 0

\* C10 as the specification has it - Fraction parsing: for every text
\* <number>/<number> with a denominator that is not zero, frac_to_decimal
\* returns exactly 1 + numerator/denominator, which is at least 1 and is 1
\* exactly when the numerator is 0; with a zero denominator ("5/0.0" too) or
\* a text that is no fraction it fails and returns no value.
C10_ExactQuotient ==
    FracCall =>
        LET c == FracCase(arg.frac_str)
        IN  IF c.ok /\ c.den # DecZero
            THEN /\ ~IsExc(ret)
                 /\ IsOnePlusQuotient(ret, c.num, c.den)
                 /\ DecCmp(ret, DecOfInt(1)) >= 0
                 /\ (ret = DecOfInt(1)) <=> (c.num = DecZero)
            ELSE IsExc(ret)

\* C10, amended - Fraction parsing: for every text <number>/<number> with a
\* denominator that is not zero, frac_to_decimal returns 1 +
\* numerator/denominator computed in decimal arithmetic of 28 significant
\* digits: the value is exact where 1 + numerator/denominator has a short
\* decimal expansion, and otherwise within a relative error of 10^-27 of it;
\* it is at least 1, and it is 1 when the numerator is 0; with a zero
\* denominator ("5/0.0" too) or a text that is no fraction it fails with
\* ValueError and returns no value.
C10_FractionParsing ==
    FracCall =>
        LET c == FracCase(arg.frac_str)
        IN  IF c.ok /\ c.den # DecZero
            THEN /\ ~IsExc(ret)
                 /\ Len(ret.c) <= Prec
                 /\ IsNearOnePlusQuotient(ret, c.num, c.den)
                 /\ c.exact => IsOnePlusQuotient(ret, c.num, c.den)
                 /\ DecCmp(ret, DecOfInt(1)) >= 0
                 /\ c.num = DecZero => ret = DecOfInt(1)
            ELSE /\ IsExc(ret)
                 /\ ret.exc = "ValueError"

\* "1/3" gives 1.333333333333333333333333333, which is not 1 + 1/3
C10_Witness ==
    /\ FracCall
    /\ arg.frac_str = <<"1", "/", "3">>
    /\ ret = Dec(FALSE, <<1>> \o [i \in 1..(Prec - 1) |-> 3], 1 - Prec)
    /\ ~IsOnePlusQuotient(ret, DecOfInt(1), DecOfInt(3))

(***************************************************************************)
(* The "Picks" worksheet.  A cell is a text (a sequence of characters), a  *)
(* row a sequence of cells, the worksheet a sequence of rows whose first   *)
(* is the header.  _sheet() writes _HEADERS into row 1 before any use.     *)
(***************************************************************************)
_HEADERS ==
    << <<"g", "u", "i", "l", "d", "_", "i", "d">>,
       <<"u", "s", "e", "r", "_", "i", "d">>,
       <<"n", "a", "m", "e">>,
       <<"p", "i", "c", "k">>,
       <<"t", "s", "_", "u", "t", "c">> >>

\* the characters of the model's texts, by code point
CodePoints ==
    <<" ", "+", "-", ".">> \o DigitChars \o <<":">> \o UpperChars \o <<"_">> \o LowerChars

Ord(ch) == CHOOSE k \in 1..Len(CodePoints) : CodePoints[k] = ch

RECURSIVE StrGreaterFrom(_, _, _)
\* a > b on str: the first differing character decides, a proper prefix is smaller
StrGreaterFrom(a, b, i) ==
    IF i > Len(a) THEN FALSE
    ELSE IF i > Len(b) THEN TRUE
    ELSE IF a[i] = b[i] THEN StrGreaterFrom(a, b, i + 1)
    ELSE Ord(a[i]) > Ord(b[i])

RECURSIVE StrDigits(_)
\* str(n) of an int n >= 0
StrDigits(n) ==
    IF n < 10 THEN <<DigitChars[n + 1]>>
    ELSE StrDigits(n \div 10) \o <<DigitChars[(n % 10) + 1]>>

RECURSIVE IntOf(_, _)
\* int(c) of the first k characters of a text of digits
IntOf(c, k) == IF k = 0 THEN 0 ELSE IntOf(c, k - 1) * 10 + DigitVal(c[k])

PyStrOf(c) == [type |-> "str", v |-> c]

PyInt(n) == [type |-> "int", v |-> n]

PyNone == [type |-> "none", v |-> 0]

\* gspread's numericise, applied by get_all_records to every cell: a text of
\* digits becomes an int, any other text of the model stays a str
numericise(c) ==
    IF c # <<>> /\ \A k \in 1..Len(c) : IsDigit(c[k])
    THEN PyInt(IntOf(c, Len(c)))
    ELSE PyStrOf(c)

\* str(x)
PyStr(x) ==
    IF x.type = "int" THEN StrDigits(x.v)
    ELSE IF x.type = "none" THEN <<"N", "o", "n", "e">>
    ELSE x.v

\* x or ""
OrEmpty(x) ==
    IF x.type = "none" \/ (x.type = "int" /\ x.v = 0) THEN PyStrOf(<<>>) ELSE x

\* a > b: [raised, gt]; str and int do not compare
PyGreater(a, b) ==
    IF a.type = "str" /\ b.type = "str"
    THEN [raised |-> "none", gt |-> StrGreaterFrom(a.v, b.v, 1)]
    ELSE IF a.type = "int" /\ b.type = "int"
    THEN [raised |-> "none", gt |-> a.v > b.v]
    ELSE [raised |-> "TypeError", gt |-> FALSE]

\* r.get(key, default) of the record get_all_records builds from a row: the
\* keys are the header's cells, a short row is filled with empty cells
RecGet(header, row, key, default) ==
    LetIn({k \in 1..Len(header) : header[k] = key},
          LAMBDA ks :
              IF ks = {} THEN default
              ELSE LetIn(CHOOSE k \in ks : \A j \in ks : k >= j,
                         LAMBDA k : IF k <= Len(row) THEN numericise(row[k])
                                    ELSE PyStrOf(<<>>)))

\* latest[uid] = {...}: a dict keeps the place of a key it already holds
DictSet(latest, uid, rec) ==
    IF \E k \in 1..Len(latest) : latest[k].uid = uid
    THEN [k \in 1..Len(latest) |-> IF latest[k].uid = uid THEN rec ELSE latest[k]]
    ELSE Append(latest, rec)

\* the record load_latest_picks keeps for a row
RowRecord(header, row) ==
    [uid    |-> PyStr(RecGet(header, row, _HEADERS[2], PyNone)),
     name   |-> RecGet(header, row, _HEADERS[3], PyStrOf(<<>>)),
     pick   |-> RecGet(header, row, _HEADERS[4], PyStrOf(<<>>)),
     ts_utc |-> OrEmpty(RecGet(header, row, _HEADERS[5], PyNone))]

\* str(r.get("guild_id")) != str(guild_id)
OtherGuild(header, row, guild_id) ==
    PyStr(RecGet(header, row, _HEADERS[1], PyNone)) # StrDigits(guild_id)

Loaded(latest) == [raised |-> "none", latest |-> latest]

LatestStepKeepLast(header, row, guild_id, latest) ==
    IF OtherGuild(header, row, guild_id) THEN Loaded(latest)
    ELSE LetIn(RowRecord(header, row),
               LAMBDA rec : Loaded(DictSet(latest, rec.uid, rec)))

\* the body of load_latest_picks' loop for one row; the dict latest is the
\* sequence of its items in insertion order
LatestStep(header, row, guild_id, latest) ==
    IF OtherGuild(header, row, guild_id) THEN Loaded(latest)
    ELSE LetIn(RowRecord(header, row),
               LAMBDA rec :
                   IF \A k \in 1..Len(latest) : latest[k].uid # rec.uid
                   THEN Loaded(DictSet(latest, rec.uid, rec))
                   ELSE LetIn(PyGreater(rec.ts_utc,
                                        latest[CHOOSE k \in 1..Len(latest) :
                                                   latest[k].uid = rec.uid].ts_utc),
                              LAMBDA cmp :
                                  IF cmp.raised # "none"
                                  THEN [raised |-> cmp.raised, latest |-> <<>>]
                                  ELSE IF cmp.gt THEN Loaded(DictSet(latest, rec.uid, rec))
                                  ELSE Loaded(latest)))

RECURSIVE LatestFrom(_, _, _, _)
LatestFrom(values, guild_id, i, out) ==
    IF out.raised # "none" \/ i > Len(values) THEN out
    ELSE LatestFrom(values, guild_id, i + 1,
                    LatestStep(values[1], values[i], guild_id, out.latest))

\* load_latest_picks(guild_id) on the worksheet values: [raised, latest]
load_latest_picks(values, guild_id) == LatestFrom(values, guild_id, 2, Loaded(<<>>))

RECURSIVE TrimBlankTail(_)
\* the worksheet as it is read back: the rows up to the last one with content
TrimBlankTail(values) ==
    IF values # <<>> /\ \A k \in 1..Len(values[Len(values)]) : values[Len(values)][k] = <<>>
    THEN TrimBlankTail(SubSeq(values, 1, Len(values) - 1))
    ELSE values

KeepRowAnyGuild(row, guild_id) == row # <<>>

\* row and row[0] != str(guild_id)
KeepRow(row, guild_id) == row # <<>> /\ row[1] # StrDigits(guild_id)

\* clear_guild_picks(guild_id): the worksheet values after ws.clear() and ws.update()
clear_guild_picks(values, guild_id) ==
    IF values = <<>> THEN <<_HEADERS>>
    ELSE TrimBlankTail(<<values[1]>>
                       \o SelectSeq(Tail(values), LAMBDA row : KeepRow(row, guild_id)))

\* ws.append_row(row): the row goes below the last row with content
append_row(values, row) == Append(values, row)

\* save_pick_to_sheet(...)'s row
PickRow(guild_id, user_id, name, pick, ts_utc_iso) ==
    <<StrDigits(guild_id), StrDigits(user_id), name, pick, ts_utc_iso>>

(***************************************************************************)
(* Time.  The clock counts units of 10 seconds from 00:00 UTC of day 0;    *)
(* local day 0 is a Wednesday.                                             *)
(***************************************************************************)
Minute == 6

Hour == 60 * Minute

Day == 24 * Hour

\* EASTERN: America/New_York standard time, five hours behind UTC
Eastern(t) == t - 5 * Hour

WeekDays ==
    <<"Wednesday", "Thursday", "Friday", "Saturday", "Sunday", "Monday", "Tuesday">>

\* strftime("%a")
WeekDaysShort ==
    << <<"W", "e", "d">>, <<"T", "h", "u">>, <<"F", "r", "i">>, <<"S", "a", "t">>,
       <<"S", "u", "n">>, <<"M", "o", "n">>, <<"T", "u", "e">> >>

\* now.date()
Date(t) == t \div Day

\* strftime("%A")
WeekDay(t) == WeekDays[(Date(t) % 7) + 1]

TwoDigits(n) == <<DigitChars[(n \div 10) + 1], DigitChars[(n % 10) + 1]>>

HourOf(t) == (t % Day) \div Hour

MinuteOf(t) == (t % Hour) \div Minute

SecondOf(t) == (t % Minute) * 10

\* strftime("%H:%M")
HourMinute(t) == TwoDigits(HourOf(t)) \o <<":">> \o TwoDigits(MinuteOf(t))

\* datetime.isoformat() of a UTC time: fields of fixed width, the largest first
isoformat(t) ==
    TwoDigits(Date(t)) \o <<"T">> \o TwoDigits(HourOf(t)) \o <<":">>
        \o TwoDigits(MinuteOf(t)) \o <<":">> \o TwoDigits(SecondOf(t))
        \o <<"+", "0", "0", ":", "0", "0">>

\* datetime.fromisoformat accepts the text
IsIso(ts) ==
    /\ Len(ts) = 17
    /\ \A k \in {1, 2, 4, 5, 7, 8, 10, 11} : IsDigit(ts[k])
    /\ ts[3] = "T" /\ ts[6] = ":" /\ ts[9] = ":"
    /\ SubSeq(ts, 12, 17) = <<"+", "0", "0", ":", "0", "0">>
    /\ IntOf(SubSeq(ts, 4, 5), 2) < 24
    /\ IntOf(SubSeq(ts, 7, 8), 2) < 60
    /\ IntOf(SubSeq(ts, 10, 11), 2) < 60

\* _parse_iso(ts) of a str at the time t: the time the text names, else the
\* current time
_parse_iso(ts, t) ==
    IF IsIso(ts)
    THEN IntOf(SubSeq(ts, 1, 2), 2) * Day + IntOf(SubSeq(ts, 4, 5), 2) * Hour
             + IntOf(SubSeq(ts, 7, 8), 2) * Minute + IntOf(SubSeq(ts, 10, 11), 2) \div 10
    ELSE t

\* _fmt_time_12h(dt_utc): '%a %I:%M %p' of the Eastern time; the text begins
\* with the day's name, so lstrip('0') removes nothing
_fmt_time_12h(t) ==
    LetIn(Eastern(t),
          LAMBDA local :
              WeekDaysShort[(Date(local) % 7) + 1] \o <<" ">>
                  \o TwoDigits(IF HourOf(local) % 12 = 0 THEN 12 ELSE HourOf(local) % 12)
                  \o <<":">> \o TwoDigits(MinuteOf(local)) \o <<" ">>
                  \o (IF HourOf(local) < 12 THEN <<"A", "M">> ELSE <<"P", "M">>))

(***************************************************************************)
(* The bot's configuration and the inputs of its commands.                 *)
(***************************************************************************)
\* OWNER_ID, from the environment
OWNER_ID == 10

\* the authors of commands
Users == {OWNER_ID, 11}

\* ctx.author.display_name
display_name(u) == IF u = OWNER_ID THEN <<"A", "n", "n">> ELSE <<"B", "o">>

\* the reveal channel's guild, the bot's main guild
MainGuild == 1

\* the text after "!pick": a name with a run of spaces, a name of 65 characters
GolferInputs ==
    {<<"R", "o", "r", "y", " ", " ", "M">>, [i \in 1..65 |-> "x"]}

\* the most rows below the header that picks are appended to
MaxRows == 2

\* the most invocations of _do_auto_reveal by the scheduler in a run
MaxReveals == 2

\* the most revealnow commands of the owner in a run
MaxRevealNow == 1

\* the times the clock shows, UTC: Eastern Wednesday (day 14) 20:59:50,
\* 21:00:00 and 21:00:10, Thursday 21:00:00, the next Wednesday 21:00:00
Instants ==
    {15 * Day + 2 * Hour - 1, 15 * Day + 2 * Hour, 15 * Day + 2 * Hour + 1,
     16 * Day + 2 * Hour, 22 * Day + 2 * Hour}

\* " ".join(s.split()): the characters that are no spaces, and one space for
\* each run of spaces between two of them
SplitJoin(s) ==
    LetIn(SelectSeq([i \in 1..Len(s) |->
                        [ch   |-> IF IsSpace(s[i]) THEN " " ELSE s[i],
                         kept |-> \/ ~IsSpace(s[i])
                                  \/ /\ i > 1 /\ ~IsSpace(s[i - 1])
                                     /\ \E j \in (i + 1)..Len(s) : ~IsSpace(s[j])]],
                    LAMBDA x : x.kept),
          LAMBDA xs : [k \in 1..Len(xs) |-> xs[k].ch])

(***************************************************************************)
(* _do_auto_reveal, a coroutine: it runs to its next await or to its end.  *)
(* Its state: the await it is suspended at ("fetch", "send_none",          *)
(* "send_picks"), or how it ended ("returned" with result, "raised").      *)
(***************************************************************************)
Callers == {"task", "revealnow"}

Coroutine(p, message, result) == [pc |-> p, message |-> message, result |-> result]

NoMessage == [title |-> "", lines |-> <<>>]

NotStarted == Coroutine("idle", NoMessage, FALSE)

Ended(st) == st.pc \in {"idle", "returned", "raised"}

\* one line of the reveal, built at the time t
RevealLine(rec, t) ==
    <<"-", " ">> \o PyStr(rec.name) \o <<":", " ">> \o PyStr(rec.pick) \o <<" ">>
        \o _fmt_time_12h(_parse_iso(PyStr(rec.ts_utc), t)) \o <<" ", "E", "T">>

\* the picks message: its title and its lines, one per item of the dict
PicksMessage(latest, t) ==
    [title |-> "This Week's Picks:",
     lines |-> [k \in 1..Len(latest) |-> RevealLine(latest[k], t)]]

NoPicksMessage == [title |-> "No picks were submitted.", lines |-> <<>>]

\* from the channel to the first send, at the time t: the channel without a
\* guild returns False; else the picks are loaded and the message is built
AfterChannel(values, guild, t) ==
    IF guild = None THEN Coroutine("returned", NoMessage, FALSE)
    ELSE LetIn(load_latest_picks(values, guild.id),
               LAMBDA loaded :
                   IF loaded.raised # "none" THEN Coroutine("raised", NoMessage, FALSE)
                   ELSE IF loaded.latest = <<>>
                   THEN Coroutine("send_none", NoPicksMessage, FALSE)
                   ELSE Coroutine("send_picks", PicksMessage(loaded.latest, t), FALSE))

\* the call of _do_auto_reveal(): bot.get_channel finds the channel in the
\* cache, or the coroutine awaits bot.fetch_channel
Enter(values, guild, t, cached) ==
    IF cached THEN AfterChannel(values, guild, t) ELSE Coroutine("fetch", NoMessage, FALSE)

\* what await channel.send(...) does: the message is sent, the bot may not
\* send to the channel, or the request fails
SendOutcomes == {"sent", "Forbidden", "HTTPException"}

\* the worksheet when the coroutine of the picks message ends
SheetAfterSendAlwaysCleared(outcome, values, guild) ==
    clear_guild_picks(values, guild.id)

SheetAfterSend(outcome, values, guild) ==
    IF outcome = "sent" THEN clear_guild_picks(values, guild.id) ELSE values

\* how the coroutine ends after the send of the picks message
AfterSendPicks(outcome) ==
    IF outcome = "sent" THEN Coroutine("returned", NoMessage, TRUE)
    ELSE IF outcome = "Forbidden" THEN Coroutine("returned", NoMessage, FALSE)
    ELSE Coroutine("raised", NoMessage, FALSE)

\* how the coroutine ends after the send of the no-picks message
AfterSendNone(outcome) ==
    IF outcome = "HTTPException" THEN Coroutine("raised", NoMessage, FALSE)
    ELSE Coroutine("returned", NoMessage, FALSE)

\* the channel after a send
ChannelAfter(outcome, messages, message) ==
    IF outcome = "sent" THEN Append(messages, message) ELSE messages

(***************************************************************************)
(* The bot as a state machine.  A step is what the event loop runs without *)
(* suspending: a command handler or the scheduler's iteration up to its    *)
(* next await, or a coroutine resumed at its await up to the next one.     *)
(***************************************************************************)
\* the worksheet when the bot starts: no picks, a pick kept for another
\* guild, or a pick of the main guild saved at noon
InitialSheets ==
    {<<_HEADERS>>,
     <<_HEADERS, PickRow(2, 11, display_name(11), <<"T", "i", "g", "e", "r">>,
                         isoformat(14 * Day))>>,
     <<_HEADERS, PickRow(MainGuild, 11, display_name(11), <<"T", "i", "g", "e", "r">>,
                         isoformat(15 * Day - 7 * Hour))>>}

FirstInstant == CHOOSE t \in Instants : \A x \in Instants : t <= x

InitBot ==
    /\ pc = "bot"
    /\ fn = "bot"
    /\ arg = None
    /\ ret = "none"
    /\ replies = <<>>
    /\ called = {}
    /\ sheet \in InitialSheets
    /\ now = FirstInstant
    /\ last_reveal_date = None
    /\ task = [pc |-> "sleep", now |-> 0]
    /\ rv = [c \in Callers |-> NotStarted]
    /\ cooldown = [u \in Users |-> 0]
    /\ posted = <<>>
    /\ reveals = [task |-> <<>>, revealnow |-> <<>>]
    /\ channel_guild \in {None, [id |-> MainGuild]}

callVars == <<pc, fn, arg, ret, called>>

\* @cooldown(1, 10, BucketType.user), in units of the clock
PickCooldown == 1

\* the times of the first evening at which commands arrive: the first, and
\* those at which a user who picked at the first is off cooldown again
Evening ==
    {t \in Instants : /\ Date(t) = Date(FirstInstant)
                      /\ (t = FirstInstant \/ t > FirstInstant + PickCooldown)}

\* time passes, to a later time of the evening
PassSeconds ==
    /\ pc = "bot"
    /\ \E t \in Evening : t > now /\ now' = t
    /\ UNCHANGED <<callVars, replies, sheet, last_reveal_date, task, rv, cooldown,
                   posted, reveals, channel_guild>>

\* time passes, to any later time
PassTime ==
    /\ pc = "bot"
    /\ \E t \in Instants : t > now /\ now' = t
    /\ UNCHANGED <<callVars, replies, sheet, last_reveal_date, task, rv, cooldown,
                   posted, reveals, channel_guild>>

\* CommandOnCooldown: the window opened at w has not passed at the time t
OnCooldown(w, t) == ~(t > w + PickCooldown)

\* what !pick sends and the worksheet it leaves: [replies, values]
pick(values, guild, author, golfer, t, outcome) ==
    IF ~(1 <= Len(golfer) /\ Len(golfer) <= 64)
    THEN [replies |-> <<"Golfer name must be 1-64 characters.">>, values |-> values]
    ELSE IF guild = None
    THEN [replies |-> <<"Error: CommandInvokeError">>, values |-> values]
    ELSE IF outcome = "APIError"
    THEN [replies |-> <<"Could not save pick (RuntimeError). Try again.">>,
          values |-> values]
    ELSE [replies |-> <<"Pick saved">>,
          values |-> append_row(values,
                                PickRow(guild.id, author, display_name(author), golfer,
                                        isoformat(t)))]

\* what the Sheets request does; the announcement that follows a saved pick
\* goes to the announcement channel and is not recorded
PickOutcomes == {"APIError", "saved"}

\* a !pick command
Pick ==
    /\ pc = "bot"
    /\ Len(sheet) - 1 < MaxRows
    /\ \E u \in Users, golfer \in GolferInputs, outcome \in PickOutcomes :
           IF OnCooldown(cooldown[u], now)
           THEN /\ replies' = <<"Slow down">>
                /\ UNCHANGED <<sheet, cooldown>>
           ELSE /\ cooldown' = [cooldown EXCEPT ![u] = now]
                /\ replies' = pick(sheet, channel_guild, u, SplitJoin(golfer),
                                   now, outcome).replies
                /\ sheet' = pick(sheet, channel_guild, u, SplitJoin(golfer),
                                 now, outcome).values
    /\ UNCHANGED <<callVars, now, last_reveal_date, task, rv, posted, reveals,
                   channel_guild>>

\* the finally clause of auto_reveal_task: the latch after the attempt st
LatchAfterSuccessOnly(st, date, old) ==
    IF st.pc = "returned" /\ st.result THEN date ELSE old

LatchAfter(st, date, old) == date

\* what revealnow sends when _do_auto_reveal has ended
RevealNowReply(st) ==
    IF st.pc = "raised" THEN "Error: CommandInvokeError"
    ELSE IF st.result THEN "Revealed and cleared."
    ELSE "No picks were submitted."

\* the coroutine of the caller c ran up to the state st, leaving the
\* worksheet values and the channel messages; when it has ended its caller
\* goes on: the scheduler (whose local now is tnow) sets the latch,
\* revealnow sends its reply
Ran(c, st, values, messages, tnow) ==
    /\ rv' = [rv EXCEPT ![c] = st]
    /\ sheet' = values
    /\ posted' = messages
    /\ IF c = "task"
       THEN /\ task' = [pc |-> IF Ended(st) THEN "sleep" ELSE "await", now |-> tnow]
            /\ last_reveal_date' =
                   IF Ended(st)
                   THEN LatchAfter(st, [date |-> Date(Eastern(tnow))], last_reveal_date)
                   ELSE last_reveal_date
            /\ UNCHANGED replies
       ELSE /\ replies' = IF Ended(st) THEN <<RevealNowReply(st)>> ELSE <<>>
            /\ UNCHANGED <<task, last_reveal_date>>

\* the call _do_auto_reveal() by the caller c for the author
Invoke(c, author, cached) ==
    /\ Len(reveals.task) < MaxReveals
    /\ Len(reveals.revealnow) < MaxRevealNow
    /\ reveals' = [reveals EXCEPT ![c] = Append(@, IF c = "task" THEN now ELSE author)]
    /\ Ran(c, Enter(sheet, channel_guild, now, cached), sheet, posted, now)

\* Wednesday 21:00 ET, and the latch does not hold the date
Due(t, latch) ==
    /\ WeekDay(Eastern(t)) = "Wednesday"
    /\ HourMinute(Eastern(t)) = <<"2", "1", ":", "0", "0">>
    /\ latch # [date |-> Date(Eastern(t))]

\* one iteration of auto_reveal_task; the loop starts the next one when this
\* one has ended
AutoRevealTask ==
    /\ pc = "bot"
    /\ task.pc = "sleep"
    /\ \E cached \in BOOLEAN :
           IF Due(now, last_reveal_date)
           THEN Invoke("task", 0, cached)
           ELSE /\ task' = [task EXCEPT !.now = now]
                /\ UNCHANGED <<replies, sheet, last_reveal_date, rv, posted, reveals>>
    /\ UNCHANGED <<callVars, now, cooldown, channel_guild>>

IsOwnerAnyone(author) == TRUE

\* ctx.author.id != OWNER_ID, negated
IsOwner(author) == author = OWNER_ID

\* a !revealnow command
RevealNow ==
    /\ pc = "bot"
    /\ \E u \in Users, cached \in BOOLEAN :
           IF ~IsOwner(u)
           THEN /\ replies' = <<"Not authorized.">>
                /\ UNCHANGED <<sheet, last_reveal_date, task, rv, posted, reveals>>
           ELSE /\ Ended(rv["revealnow"])
                /\ Invoke("revealnow", u, cached)
    /\ UNCHANGED <<callVars, now, cooldown, channel_guild>>

\* await bot.fetch_channel(...) ends: the channel, or an exception
FetchChannel ==
    /\ pc = "bot"
    /\ \E c \in Callers, found \in BOOLEAN :
           /\ rv[c].pc = "fetch"
           /\ Ran(c, IF found THEN AfterChannel(sheet, channel_guild, now)
                     ELSE Coroutine("raised", NoMessage, FALSE),
                  sheet, posted, task.now)
    /\ UNCHANGED <<callVars, now, cooldown, reveals, channel_guild>>

\* await channel.send("No picks were submitted.") ends
SendNoPicks ==
    /\ pc = "bot"
    /\ \E c \in Callers, outcome \in SendOutcomes :
           /\ rv[c].pc = "send_none"
           /\ Ran(c, AfterSendNone(outcome), sheet,
                  ChannelAfter(outcome, posted, rv[c].message), task.now)
    /\ UNCHANGED <<callVars, now, cooldown, reveals, channel_guild>>

\* await channel.send(picks) ends; after a sent message the picks are cleared
SendPicks ==
    /\ pc = "bot"
    /\ \E c \in Callers, outcome \in SendOutcomes :
           /\ rv[c].pc = "send_picks"
           /\ Ran(c, AfterSendPicks(outcome), SheetAfterSend(outcome, sheet, channel_guild),
                  ChannelAfter(outcome, posted, rv[c].message), task.now)
    /\ UNCHANGED <<callVars, now, cooldown, reveals, channel_guild>>

NextBot ==
    \/ PassSeconds
    \/ Pick
    \/ AutoRevealTask
    \/ RevealNow
    \/ FetchChannel
    \/ SendNoPicks
    \/ SendPicks

SpecBot == InitBot /\ [][NextBot]_vars

\* the scheduler over the days: the clock, the iterations of auto_reveal_task
\* and the coroutine it awaits (revealnow's too)
NextSchedule ==
    \/ PassTime
    \/ AutoRevealTask
    \/ RevealNow
    \/ FetchChannel
    \/ SendNoPicks
    \/ SendPicks

SpecSchedule == InitBot /\ [][NextSchedule]_vars

(***************************************************************************)
(* auto_reveal_task: the properties.                                       *)
(***************************************************************************)
\* the UTC time t is within the minute 21:00 of an Eastern Wednesday
WednesdayNine(t) ==
    /\ ((t - 5 * Hour) \div Day) % 7 = 0
    /\ (t - 5 * Hour) % Day >= 21 * Hour
    /\ (t - 5 * Hour) % Day < 21 * Hour + Minute

\* C11: the scheduler invokes _do_auto_reveal only on ticks at Wednesday
\* 21:00 Eastern time, and at most once per calendar date, whatever the
\* earlier attempt of that date did (posted, found no picks, raised)
C11_OncePerDate ==
    /\ \A i \in 1..Len(reveals.task) : WednesdayNine(reveals.task[i])
    /\ \A i, j \in 1..Len(reveals.task) :
           i # j => (reveals.task[i] - 5 * Hour) \div Day
                        # (reveals.task[j] - 5 * Hour) \div Day

\* the attempt of 21:00:00 raised, and a later tick of the same minute has
\* run without another attempt
C11_Witness ==
    /\ Len(reveals.task) = 1
    /\ rv["task"].pc = "raised"
    /\ task.pc = "sleep"
    /\ task.now > reveals.task[1]
    /\ WednesdayNine(task.now)
    /\ (task.now - 5 * Hour) \div Day = (reveals.task[1] - 5 * Hour) \div Day

(***************************************************************************)
(* load_latest_picks and clear_guild_picks, each called once on a          *)
(* worksheet: the header and up to MaxSheetRows rows from RowPool.         *)
(***************************************************************************)
MaxSheetRows == 3

Guilds == {MainGuild, 2}

Noon == isoformat(15 * Day - 7 * Hour)

Evening9 == isoformat(15 * Day + 2 * Hour)

\* the rows picks leave, for each guild and user: saved at noon, in the
\* evening, or with an empty time cell; a pick whose text is a number; a row
\* without cells and a row of empty cells
RowPool ==
    {PickRow(g, u, display_name(u), <<"T", "i", "g", "e", "r">>, ts) :
         g \in Guilds, u \in Users, ts \in {<<>>, Noon, Evening9}}
        \cup {PickRow(MainGuild, OWNER_ID, display_name(OWNER_ID), <<"7">>, Evening9),
              <<>>,
              <<<<>>, <<>>, <<>>, <<>>, <<>>>>}

InitSheet ==
    /\ pc = "call"
    /\ ret = "none"
    /\ replies = <<>>
    /\ called = {}
    /\ fn \in {"load_latest_picks", "clear_guild_picks"}
    /\ \E rows \in SeqsUpTo(RowPool, MaxSheetRows) :
           sheet = TrimBlankTail(<<_HEADERS>> \o rows)
    /\ \E g \in Guilds : arg = [guild_id |-> g, values |-> sheet]
    /\ now = 0
    /\ last_reveal_date = None
    /\ task = None
    /\ rv = None
    /\ cooldown = None
    /\ posted = <<>>
    /\ reveals = <<>>
    /\ channel_guild = None

CallLoadLatestPicks ==
    /\ pc = "call" /\ fn = "load_latest_picks"
    /\ ret' = load_latest_picks(sheet, arg.guild_id)
    /\ pc' = "done"
    /\ UNCHANGED <<fn, arg, replies, called, botVars>>

CallClearGuildPicks ==
    /\ pc = "call" /\ fn = "clear_guild_picks"
    /\ sheet' = clear_guild_picks(sheet, arg.guild_id)
    /\ pc' = "done"
    /\ UNCHANGED <<fn, arg, ret, replies, called, now, last_reveal_date, task, rv,
                   cooldown, posted, reveals, channel_guild>>

NextSheet == CallLoadLatestPicks \/ CallClearGuildPicks

SpecSheet == InitSheet /\ [][NextSheet]_vars

(***************************************************************************)
(* load_latest_picks and clear_guild_picks: the properties.                *)
(***************************************************************************)
LoadCall == pc = "done" /\ fn = "load_latest_picks"

\* the text of a row's k-th cell
CellText(row, k) == IF k <= Len(row) THEN row[k] ELSE <<>>

\* the places of the rows whose guild_id cell is the text of g
RowsOfGuild(values, g) ==
    {k \in 2..Len(values) : CellText(values[k], 1) = StrDigits(g)}

\* the places of the rows of the user (a text) among those of the guild g
RowsOfUser(values, g, uid) ==
    {k \in RowsOfGuild(values, g) : CellText(values[k], 2) = uid}

\* the record is the row at place k: its name, pick and time
IsRecordOf(rec, values, k) ==
    /\ rec.uid = CellText(values[k], 2)
    /\ PyStr(rec.name) = CellText(values[k], 3)
    /\ PyStr(rec.pick) = CellText(values[k], 4)
    /\ PyStr(rec.ts_utc) = CellText(values[k], 5)

\* C12: load_latest_picks(g) returns one record for each user with a row of
\* the guild g and for no one else; the record is one of that user's rows in
\* g whose ts_utc no other of them exceeds; the rows of other guilds do not
\* change the result
C12_LatestPickOnly ==
    LoadCall =>
        /\ ret.raised = "none"
        /\ \A k \in RowsOfGuild(arg.values, arg.guild_id) :
               Cardinality({i \in 1..Len(ret.latest) :
                                ret.latest[i].uid = CellText(arg.values[k], 2)}) = 1
        /\ \A i \in 1..Len(ret.latest) :
               \E k \in RowsOfUser(arg.values, arg.guild_id, ret.latest[i].uid) :
                   /\ IsRecordOf(ret.latest[i], arg.values, k)
                   /\ \A j \in RowsOfUser(arg.values, arg.guild_id, ret.latest[i].uid) :
                          ~StrGreaterFrom(CellText(arg.values[j], 5),
                                          CellText(arg.values[k], 5), 1)
        /\ ret = load_latest_picks(
                     <<arg.values[1]>>
                         \o SelectSeq(Tail(arg.values),
                                      LAMBDA row : CellText(row, 1) = StrDigits(arg.guild_id)),
                     arg.guild_id)

\* a user's earlier row holds the later time and is the record returned;
\* another guild has a row too
C12_Witness ==
    /\ LoadCall
    /\ arg.guild_id = MainGuild
    /\ RowsOfGuild(arg.values, 2) # {}
    /\ Len(ret.latest) = 1
    /\ \E k, j \in RowsOfGuild(arg.values, arg.guild_id) :
           /\ k < j
           /\ CellText(arg.values[k], 2) = CellText(arg.values[j], 2)
           /\ StrGreaterFrom(CellText(arg.values[k], 5), CellText(arg.values[j], 5), 1)
           /\ \E i \in 1..Len(ret.latest) : IsRecordOf(ret.latest[i], arg.values, k)

ClearCall == pc = "done" /\ fn = "clear_guild_picks"

\* a row with content that is not of the guild g
KeptRow(row, g) ==
    /\ \E k \in 1..Len(row) : row[k] # <<>>
    /\ row[1] # StrDigits(g)

\* C15: clear_guild_picks(g) leaves no row whose guild_id is g, and leaves
\* the header row and the rows with content of the other guilds as they
\* were, in their order
C15_ClearPerGuild ==
    ClearCall =>
        /\ RowsOfGuild(sheet, arg.guild_id) = {}
        /\ sheet[1] = arg.values[1]
        /\ SelectSeq(Tail(sheet), LAMBDA row : KeptRow(row, arg.guild_id))
               = SelectSeq(Tail(arg.values), LAMBDA row : KeptRow(row, arg.guild_id))

\* a row of the guild was removed from between two different rows of
\* another guild, which stay
C15_Witness ==
    /\ ClearCall
    /\ Len(arg.values) = 4
    /\ RowsOfGuild(arg.values, arg.guild_id) = {3}
    /\ KeptRow(arg.values[2], arg.guild_id)
    /\ KeptRow(arg.values[4], arg.guild_id)
    /\ arg.values[2] # arg.values[4]
    /\ sheet = <<arg.values[1], arg.values[2], arg.values[4]>>

(***************************************************************************)
(* _do_auto_reveal, pick and revealnow: the properties.                    *)
(***************************************************************************)
\* the caller c's coroutine ends in this step with the picks posted
Revealed(c) ==
    /\ rv[c].pc = "send_picks"
    /\ rv'[c].pc = "returned"
    /\ rv'[c].result

\* the line that reveals the pick saved in the row, the line built at time t
LineOf(row, t) ==
    <<"-", " ">> \o CellText(row, 3) \o <<":", " ">> \o CellText(row, 4) \o <<" ">>
        \o _fmt_time_12h(_parse_iso(CellText(row, 5), t)) \o <<" ", "E", "T">>

\* the place of the row saved last among the rows at the places ks
LastOf(ks) == CHOOSE k \in ks : \A j \in ks : j <= k

\* C13: when a reveal clears the worksheet, for every user with a row that
\* is deleted the message this reveal posted has the line of the user's pick
\* saved last, whatever !pick commands ran while the reveal was suspended
C13_NoPickClearedUnrevealed ==
    [][\A c \in Callers :
           Revealed(c) =>
               \A k \in RowsOfGuild(sheet, MainGuild) :
                   (\A j \in 1..Len(sheet') : sheet'[j] # sheet[k]) =>
                       \E i \in 1..Len(posted'[Len(posted')].lines) :
                           posted'[Len(posted')].lines[i]
                               = LineOf(sheet[LastOf(RowsOfUser(sheet, MainGuild,
                                                                CellText(sheet[k], 2)))],
                                        now)]_vars

\* C14: a step of _do_auto_reveal changes the worksheet only by
\* clear_guild_picks after its picks message was sent, and the coroutine then
\* returns True; it returns True in no other way; after the no-picks
\* message, after a forbidden send and for a channel without a guild it
\* returns False, and a coroutine that returns False leaves the worksheet as
\* it was; any other change of the worksheet is a row appended by !pick
C14_ClearAfterPost ==
    [][/\ \A c \in Callers :
              /\ (rv'[c] # rv[c] /\ (sheet' # sheet \/ (rv'[c].pc = "returned" /\ rv'[c].result)))
                     => /\ rv[c].pc = "send_picks"
                        /\ rv[c].message.title = "This Week's Picks:"
                        /\ posted' = Append(posted, rv[c].message)
                        /\ sheet' = clear_guild_picks(sheet, MainGuild)
                        /\ rv'[c].pc = "returned" /\ rv'[c].result
              /\ (rv'[c] # rv[c] /\ rv'[c].pc = "returned" /\ ~rv'[c].result)
                     => sheet' = sheet
              /\ (rv[c].pc = "send_none" /\ rv'[c].pc = "returned") => ~rv'[c].result
              /\ (rv[c].pc = "send_picks" /\ rv'[c].pc = "returned" /\ posted' = posted)
                     => ~rv'[c].result
              /\ (channel_guild = None /\ rv'[c] # rv[c])
                     => \/ rv'[c].pc = "fetch"
                        \/ rv'[c].pc = "raised" /\ rv[c].pc = "fetch"
                        \/ rv'[c].pc = "returned" /\ ~rv'[c].result
       /\ (sheet' # sheet /\ rv' = rv)
              => /\ Len(sheet') = Len(sheet) + 1
                 /\ SubSeq(sheet', 1, Len(sheet)) = sheet]_vars

\* a reveal posted the picks of the guild and returned True, and the
\* worksheet holds no row of the guild
C14_Witness ==
    \E c \in Callers :
        /\ rv[c].pc = "returned" /\ rv[c].result
        /\ posted # <<>>
        /\ posted[Len(posted)].title = "This Week's Picks:"
        /\ RowsOfGuild(sheet, MainGuild) = {}
        /\ Len(sheet) > 1

\* C16: every revealnow that invoked _do_auto_reveal was the owner's, and
\* the revealnow coroutine runs only after such an invocation; the step that
\* answers "Not authorized." leaves the worksheet, the channel and the
\* coroutines as they were
C16_OwnerOnly ==
    /\ [](/\ \A i \in 1..Len(reveals.revealnow) : reveals.revealnow[i] = OWNER_ID
          /\ rv["revealnow"].pc # "idle" => reveals.revealnow # <<>>)
    /\ [][/\ (replies' = <<"Not authorized.">> /\ replies' # replies)
                 => UNCHANGED <<sheet, posted, rv, reveals>>
          /\ (rv'["revealnow"] # rv["revealnow"] /\ Ended(rv["revealnow"]))
                 => reveals'.revealnow = Append(reveals.revealnow, OWNER_ID)]_vars

\* a revealnow was refused while the worksheet held a pick of the guild:
\* nothing was posted and no reveal was invoked
C16_Witness ==
    /\ replies = <<"Not authorized.">>
    /\ RowsOfGuild(sheet, MainGuild) # {}
    /\ posted = <<>>
    /\ reveals = [task |-> <<>>, revealnow |-> <<>>]

====
